---------------------------- MODULE Spec2Model ----------------------------
(***************************************************************************)
(* A model of the optimized two-intersection traffic-signal controller     *)
(* (src/optimized_traffic_controller.py): the rotating-camera attention    *)
(* model, the traffic history and trend predictor, the urgency scorer, the *)
(* per-intersection phase decision with its min/max green times, the       *)
(* J1 -> J2 coordination boost, and the run loop that drives one tick per  *)
(* simulation step.                                                        *)
(*                                                                         *)
(* Real-valued quantities (waiting times, trends, urgency scores) are kept *)
(* in fixed point: Unit stands for 1.0.  A product with a decimal literal  *)
(* of the source, x * 1.5, is written Mul(x, 15, 10).  With integer raw    *)
(* waiting seconds every such product is exact (see UrgencyFormula).         *)
(***************************************************************************)
EXTENDS Integers, Sequences, FiniteSets, TLC

VARIABLES
    controller,   \* the OptimizedTrafficController object (its fields)
    metrics,      \* TrafficMetrics.intersection_stats and the rows written
    sim,          \* the simulator: each traffic light's phase and its program
    tls_j2_id,    \* TLS_ID_J2 of the run: "1017322720" or "None"
    step,         \* the run loop's step counter
    running,      \* TRUE while the run loop is executing, FALSE after close()
    demand,       \* the sensor source: what the detectors report
    obs,          \* the locals of the last optimized_traffic_control call
    alt,          \* a second run of the same program (two-run comparison)
    simulation_error  \* TRUE once the run loop has printed "Simulation error"

vars == <<controller, metrics, sim, tls_j2_id, step, running, demand, obs, alt,
          simulation_error>>

-----------------------------------------------------------------------------
(* Bounds of the model *)

\* Steps of the run loop that are explored (the code runs 86,400).
MaxStep == 115

\* Steps explored when the demand may surge (SpecSurge).
SurgeHorizon == 45

\* Longest surge of demand, in steps.
MaxSurgeLen == 6

\* Steps explored when detectors may fail (SpecOutage).
OutageHorizon == 26

\* Steps explored when the simulator rejects commands or the connection
\* breaks (SpecFault).
FaultHorizon == 45

-----------------------------------------------------------------------------
(* Program constants: OptimizedTrafficController.__init__ *)

camera_rotation_speed == 10
min_green_time == 20
max_green_time == 90
congestion_threshold == 18
emergency_threshold == 25
queue_clearing_bonus == 3
history_keep == 10
trend_window == 5
coordination_window == 40
metrics_every == 10

\* Fixed point: Unit is 1.0.
Unit == 4 * 100

Mul(x, num, den) == (x * num) \div den

Max(a, b) == IF a >= b THEN a ELSE b

Intersections == {"J1", "J2"}
Directions == {"E", "W", "N", "S"}

\* Phase indices of the simulator's programs, as the baseline controller
\* documents them: 0 = EW green, 1 = EW yellow, 2 = NS green, 3 = NS yellow.
GreenPhases == {0, 2}

-----------------------------------------------------------------------------
(* Camera attention model *)

\* get_camera_focus: <<primary, secondary>> of an angle.  22.5 and 337.5 are
\* compared doubled.
get_camera_focus(angle) ==
    LET a == angle % 360
    IN  IF 315 <= a \/ a < 45
        THEN <<"E", IF 2 * a < 45 \/ 2 * a > 675 THEN "N" ELSE "S">>
        ELSE IF 45 <= a /\ a < 135
        THEN <<"N", IF a < 90 THEN "E" ELSE "W">>
        ELSE IF 135 <= a /\ a < 225
        THEN <<"W", IF a < 180 THEN "N" ELSE "S">>
        ELSE IF 225 <= a /\ a < 315
        THEN <<"S", IF a < 270 THEN "W" ELSE "E">>
        ELSE <<"E", "N">>

\* calculate_camera_visibility, in hundredths: 1.0, 0.75, 0.25.
calculate_camera_visibility(direction, primary, secondary) ==
    IF direction = primary THEN 100
    ELSE IF direction = secondary THEN 75
    ELSE 25

\* Variant of advance_camera: the angle is not wrapped.
advance_camera_no_wrap(angle) == angle + camera_rotation_speed

\* The angle update at the head of get_360_camera_data.
advance_camera(angle) == (angle + camera_rotation_speed) % 360

\* Variant of trim_history: the newest entry is discarded instead of the
\* oldest.
trim_history_drops_newest(h) ==
    IF Len(h) > history_keep THEN SubSeq(h, 1, Len(h) - 1) ELSE h

\* The "keep recent history" loop of get_360_camera_data for one buffer.
trim_history(h) == IF Len(h) > history_keep THEN Tail(h) ELSE h

\* Variant of read_direction: the except clause does not zero the entries.
read_direction_no_zeroing(reading, visibility_factor) ==
    [halting |-> (reading.halting * visibility_factor) \div 100,
     total   |-> (reading.total * visibility_factor) \div 100,
     waiting |-> (reading.waiting * Unit * visibility_factor) \div 100]

\* Lines 99-114: the entries of one direction.  reading.raises says that the
\* detector read of the direction raises; the except clause then stores 0.
read_direction(reading, visibility_factor) ==
    IF reading.raises
    THEN [halting |-> 0, total |-> 0, waiting |-> 0]
    ELSE [halting |-> (reading.halting * visibility_factor) \div 100,
          total   |-> (reading.total * visibility_factor) \div 100,
          waiting |-> (reading.waiting * Unit * visibility_factor) \div 100]

\* get_360_camera_data(intersection, step) with the detector readings raw
\* (raw[d] = [halting, total, waiting, raises] over the detectors of d):
\* the new controller, the traffic_data returned and the camera's focus.
get_360_camera_data(ctrl, intersection, raw) ==
    LET old_angle == IF intersection = "J1" THEN ctrl.j1_camera_angle
                     ELSE ctrl.j2_camera_angle
        camera_angle == advance_camera(old_angle)
        focus == get_camera_focus(camera_angle)
        primary_direction == focus[1]
        secondary_direction == focus[2]
        traffic_data ==
            [d \in Directions |->
                read_direction(raw[d],
                               calculate_camera_visibility(d, primary_direction,
                                                           secondary_direction))]
        primary_data == traffic_data[primary_direction].halting
        appended == [ctrl.traffic_history[intersection] EXCEPT
                        ![primary_direction] = Append(@, primary_data)]
        history == [d \in Directions |-> trim_history(appended[d])]
        ctrl1 == IF intersection = "J1"
                 THEN [ctrl EXCEPT !.j1_camera_angle = camera_angle]
                 ELSE [ctrl EXCEPT !.j2_camera_angle = camera_angle]
    IN  [controller |-> [ctrl1 EXCEPT !.traffic_history[intersection] = history],
         data       |-> traffic_data,
         angle      |-> camera_angle,
         primary    |-> primary_direction,
         secondary  |-> secondary_direction]

-----------------------------------------------------------------------------
(* Trend predictor and urgency scorer *)

\* Variant of predict_traffic_trend: the slope is taken from the oldest
\* sample of the buffer (history[0]) instead of the fifth most recent one.
predict_traffic_trend_from_oldest(ctrl, intersection, direction) ==
    LET history == ctrl.traffic_history[intersection][direction]
        n == Len(history)
    IN  IF n < trend_window THEN 0
        ELSE ((history[n] - history[1]) * Unit) \div trend_window

\* predict_traffic_trend: 0 below 5 samples, else (recent[-1] - recent[0]) / 5
\* over the last five samples.
predict_traffic_trend(ctrl, intersection, direction) ==
    LET history == ctrl.traffic_history[intersection][direction]
        n == Len(history)
    IN  IF n < trend_window THEN 0
        ELSE LET recent == SubSeq(history, n - trend_window + 1, n)
             IN  IF Len(recent) >= 3
                 THEN ((recent[Len(recent)] - recent[1]) * Unit) \div Len(recent)
                 ELSE 0

\* Variant of apply_multiplier: "if" instead of "elif", so that both
\* multipliers apply at or above the emergency threshold.
apply_multiplier_both(urgency_score, halting) ==
    LET emergency == IF halting >= emergency_threshold
                     THEN Mul(urgency_score, 20, 10) ELSE urgency_score
    IN  IF halting >= congestion_threshold THEN Mul(emergency, 15, 10) ELSE emergency

\* The emergency / congestion multiplier of calculate_urgency_score.
apply_multiplier(urgency_score, halting) ==
    IF halting >= emergency_threshold THEN Mul(urgency_score, 20, 10)
    ELSE IF halting >= congestion_threshold THEN Mul(urgency_score, 15, 10)
    ELSE urgency_score

\* calculate_urgency_score(traffic_data, intersection, direction_pair).
calculate_urgency_score(ctrl, traffic_data, intersection, direction_pair) ==
    LET a == IF direction_pair = "EW" THEN "E" ELSE "N"
        b == IF direction_pair = "EW" THEN "W" ELSE "S"
        halting == traffic_data[a].halting + traffic_data[b].halting
        total == traffic_data[a].total + traffic_data[b].total
        waiting == (traffic_data[a].waiting + traffic_data[b].waiting) \div 2
        trend == Max(predict_traffic_trend(ctrl, intersection, a),
                     predict_traffic_trend(ctrl, intersection, b))
        urgency_score == halting * Mul(Unit, 40, 10)
                         + total * Mul(Unit, 15, 10)
                         + Mul(waiting, 8, 10)
                         + Mul(Max(0, trend), 25, 10)
        escalated == apply_multiplier(urgency_score, halting)
    IN  IF halting > 0
        THEN escalated + queue_clearing_bonus * Unit * halting
        ELSE escalated

-----------------------------------------------------------------------------
(* The simulator behind traci: traffic-light programs *)

\* Each traffic light runs a static four-phase program (green and yellow
\* durations prog.green, prog.yellow) unless setPhase moves it.
tls_present(tls2) == IF tls2 = "None" THEN {"J1"} ELSE {"J1", "J2"}

phase_duration(prog, p) == IF p \in GreenPhases THEN prog.green ELSE prog.yellow

\* traci.simulationStep(): the simulation time and every existing traffic
\* light advance one second.
simulationStep(simst, tls2) ==
    [simst EXCEPT !.time = @ + 1, !.tls =
        [j \in Intersections |->
            IF j \notin tls_present(tls2) THEN simst.tls[j]
            ELSE IF simst.tls[j].elapsed + 1 >= phase_duration(simst.program, simst.tls[j].phase)
            THEN [simst.tls[j] EXCEPT !.phase = (@ + 1) % 4, !.elapsed = 0]
            ELSE [simst.tls[j] EXCEPT !.elapsed = @ + 1]]]

\* The calls into the simulator at which a connection can break:
\* traci.simulationStep, the traci.lanearea reads of get_360_camera_data,
\* traci.trafficlight.getPhase / setPhase, and the reads of
\* collect_step_metrics.
Calls == {"simulationStep", "lanearea", "getPhase", "setPhase", "metrics"}

\* What the simulator will do to the run (simst.plan): from second
\* reject_from on it raises on the phase commands of the intersections in
\* rejects; in second drop_time the connection breaks at the call drop_at.
NoFaults == [rejects |-> {}, reject_from |-> 0, drop_at |-> "never", drop_time |-> 0]

\* The call raises a connection-level error: the connection is lost
\* already, or it breaks at this call (now is the simulation second of the
\* call).
connection_error(simst, call, now) ==
    \/ ~simst.connected
    \/ simst.plan.drop_at = call /\ simst.plan.drop_time = now

\* The simulator side after a call that raised a connection-level error:
\* the connection stays lost; late_calls keeps the calls that were issued
\* after the first such error.
connection_lost(simst, call) ==
    [simst EXCEPT !.connected = FALSE,
                  !.late_calls = IF simst.connected THEN @ ELSE @ \cup {call}]

\* The simulator rejects (raises on) a phase command for j.
command_rejected(simst, j) ==
    j \in simst.plan.rejects /\ simst.time >= simst.plan.reject_from

\* The simulator side after a rejected phase command for j.
reject_command(simst, j) == [simst EXCEPT !.rejected = @ \cup {j}]

\* traci.trafficlight.getPhase(tls_id)
getPhase(simst, j) == simst.tls[j].phase

\* traci.trafficlight.setPhase(tls_id, phase)
\* (commands counts the setPhase calls the simulator has received for j).
setPhase(simst, j, p) ==
    [simst EXCEPT !.tls[j] = [phase |-> p, elapsed |-> 0, commands |-> @.commands + 1]]

-----------------------------------------------------------------------------
(* Phase decisions of optimized_traffic_control *)

\* Variant of j1_decision: there is no forced switch at max_green_time.
j1_decision_no_max_green(current_j1_phase, j1_ew_urgency, j1_ns_urgency, j1_phase_timer) ==
    IF current_j1_phase = 0
    THEN IF j1_ns_urgency > Mul(j1_ew_urgency, 15, 10)
            /\ j1_phase_timer >= min_green_time
         THEN [target |-> 2, needed |-> TRUE]
         ELSE [target |-> current_j1_phase, needed |-> FALSE]
    ELSE IF current_j1_phase = 2
    THEN IF j1_ew_urgency > Mul(j1_ns_urgency, 15, 10)
            /\ j1_phase_timer >= min_green_time
         THEN [target |-> 0, needed |-> TRUE]
         ELSE [target |-> current_j1_phase, needed |-> FALSE]
    ELSE [target |-> current_j1_phase, needed |-> FALSE]

\* Variant of j1_decision: the urgency rule does not wait for min_green_time.
j1_decision_no_min_green(current_j1_phase, j1_ew_urgency, j1_ns_urgency, j1_phase_timer) ==
    IF current_j1_phase = 0
    THEN IF j1_ns_urgency > Mul(j1_ew_urgency, 15, 10) \/ j1_phase_timer >= max_green_time
         THEN [target |-> 2, needed |-> TRUE]
         ELSE [target |-> current_j1_phase, needed |-> FALSE]
    ELSE IF current_j1_phase = 2
    THEN IF j1_ew_urgency > Mul(j1_ns_urgency, 15, 10) \/ j1_phase_timer >= max_green_time
         THEN [target |-> 0, needed |-> TRUE]
         ELSE [target |-> current_j1_phase, needed |-> FALSE]
    ELSE [target |-> current_j1_phase, needed |-> FALSE]

\* Variant of j1_decision: the urgency comparison is >= instead of >.
j1_decision_non_strict(current_j1_phase, j1_ew_urgency, j1_ns_urgency, j1_phase_timer) ==
    IF current_j1_phase = 0
    THEN IF (j1_ns_urgency >= Mul(j1_ew_urgency, 15, 10)
             /\ j1_phase_timer >= min_green_time)
            \/ j1_phase_timer >= max_green_time
         THEN [target |-> 2, needed |-> TRUE]
         ELSE [target |-> current_j1_phase, needed |-> FALSE]
    ELSE IF current_j1_phase = 2
    THEN IF (j1_ew_urgency >= Mul(j1_ns_urgency, 15, 10)
             /\ j1_phase_timer >= min_green_time)
            \/ j1_phase_timer >= max_green_time
         THEN [target |-> 0, needed |-> TRUE]
         ELSE [target |-> current_j1_phase, needed |-> FALSE]
    ELSE [target |-> current_j1_phase, needed |-> FALSE]

\* Variant of j1_decision: the second branch is an "else", so a phase that
\* is not EastWestGreen is handled like NorthSouthGreen.
j1_decision_else_branch(current_j1_phase, j1_ew_urgency, j1_ns_urgency, j1_phase_timer) ==
    IF current_j1_phase = 0
    THEN IF j1_ns_urgency > Mul(j1_ew_urgency, 15, 10)
            /\ j1_phase_timer >= min_green_time
         THEN [target |-> 2, needed |-> TRUE]
         ELSE IF j1_phase_timer >= max_green_time
         THEN [target |-> 2, needed |-> TRUE]
         ELSE [target |-> current_j1_phase, needed |-> FALSE]
    ELSE IF j1_ew_urgency > Mul(j1_ns_urgency, 15, 10)
            /\ j1_phase_timer >= min_green_time
         THEN [target |-> 0, needed |-> TRUE]
         ELSE IF j1_phase_timer >= max_green_time
         THEN [target |-> 0, needed |-> TRUE]
         ELSE [target |-> current_j1_phase, needed |-> FALSE]

\* Lines 260-281: the decision for J1 (switch ratio 1.5).
j1_decision(current_j1_phase, j1_ew_urgency, j1_ns_urgency, j1_phase_timer) ==
    IF current_j1_phase = 0
    THEN IF j1_ns_urgency > Mul(j1_ew_urgency, 15, 10)
            /\ j1_phase_timer >= min_green_time
         THEN [target |-> 2, needed |-> TRUE]
         ELSE IF j1_phase_timer >= max_green_time
         THEN [target |-> 2, needed |-> TRUE]
         ELSE [target |-> current_j1_phase, needed |-> FALSE]
    ELSE IF current_j1_phase = 2
    THEN IF j1_ew_urgency > Mul(j1_ns_urgency, 15, 10)
            /\ j1_phase_timer >= min_green_time
         THEN [target |-> 0, needed |-> TRUE]
         ELSE IF j1_phase_timer >= max_green_time
         THEN [target |-> 0, needed |-> TRUE]
         ELSE [target |-> current_j1_phase, needed |-> FALSE]
    ELSE [target |-> current_j1_phase, needed |-> FALSE]

\* Variant of j2_decision: the forced switch tests > max_green_time.
j2_decision_late_force(current_j2_phase, j2_ew_urgency, j2_ns_urgency, j2_phase_timer) ==
    IF current_j2_phase = 0
    THEN IF (j2_ns_urgency > Mul(j2_ew_urgency, 14, 10)
             /\ j2_phase_timer >= min_green_time)
            \/ j2_phase_timer > max_green_time
         THEN [target |-> 2, needed |-> TRUE]
         ELSE [target |-> current_j2_phase, needed |-> FALSE]
    ELSE IF current_j2_phase = 2
    THEN IF (j2_ew_urgency > Mul(j2_ns_urgency, 14, 10)
             /\ j2_phase_timer >= min_green_time)
            \/ j2_phase_timer > max_green_time
         THEN [target |-> 0, needed |-> TRUE]
         ELSE [target |-> current_j2_phase, needed |-> FALSE]
    ELSE [target |-> current_j2_phase, needed |-> FALSE]

\* Lines 309-329: the decision for J2 (switch ratio 1.4).
j2_decision(current_j2_phase, j2_ew_urgency, j2_ns_urgency, j2_phase_timer) ==
    IF current_j2_phase = 0
    THEN IF j2_ns_urgency > Mul(j2_ew_urgency, 14, 10)
            /\ j2_phase_timer >= min_green_time
         THEN [target |-> 2, needed |-> TRUE]
         ELSE IF j2_phase_timer >= max_green_time
         THEN [target |-> 2, needed |-> TRUE]
         ELSE [target |-> current_j2_phase, needed |-> FALSE]
    ELSE IF current_j2_phase = 2
    THEN IF j2_ew_urgency > Mul(j2_ns_urgency, 14, 10)
            /\ j2_phase_timer >= min_green_time
         THEN [target |-> 0, needed |-> TRUE]
         ELSE IF j2_phase_timer >= max_green_time
         THEN [target |-> 0, needed |-> TRUE]
         ELSE [target |-> current_j2_phase, needed |-> FALSE]
    ELSE [target |-> current_j2_phase, needed |-> FALSE]

\* Variant of coordinate_j2: the recency multiplier is left out.
coordinate_j2_no_recency(j2_ew_urgency, j2_ns_urgency, target_j1_phase, steps_since_j1_change) ==
    [ew |-> IF target_j1_phase = 0 THEN Mul(j2_ew_urgency, 25, 10) ELSE j2_ew_urgency,
     ns |-> j2_ns_urgency]

\* Lines 299-307: the coordination of J2's urgencies with J1.  Only the EW
\* urgency is touched.
coordinate_j2(j2_ew_urgency, j2_ns_urgency, target_j1_phase, steps_since_j1_change) ==
    LET weighted == IF target_j1_phase = 0
                    THEN Mul(j2_ew_urgency, 25, 10)
                    ELSE j2_ew_urgency
    IN  [ew |-> IF steps_since_j1_change < coordination_window /\ target_j1_phase = 0
                THEN Mul(weighted, 13, 10)
                ELSE weighted,
         ns |-> j2_ns_urgency]

\* Ticks of one full camera rotation.
CameraPeriod == 360 \div camera_rotation_speed

\* The focus pairs of the last CameraPeriod + 1 ticks, oldest first (an
\* observer of the run).
focus_seen_after(prev, primary, secondary) ==
    LET seen == Append(prev.focus_seen, <<primary, secondary>>)
    IN  IF Len(seen) > CameraPeriod + 1 THEN Tail(seen) ELSE seen

\* Consecutive ticks an intersection has reported one and the same green
\* phase (an observer of the run, not a field of the program).
green_run_after(prev, current_phase) ==
    IF current_phase \notin GreenPhases THEN 0
    ELSE IF prev.current_phase = current_phase /\ ~prev.phase_change_needed
    THEN prev.green_run + 1
    ELSE 1

-----------------------------------------------------------------------------
(* optimized_traffic_control: one call *)

\* What the observer keeps of one intersection's part of a call.
NoObservation ==
    [angle |-> 0, primary |-> "E", secondary |-> "N",
     raw |-> [d \in Directions |->
                [halting |-> 0, total |-> 0, waiting |-> 0, raises |-> FALSE]],
     data |-> [d \in Directions |-> [halting |-> 0, total |-> 0, waiting |-> 0]],
     current_phase |-> -1, timer |-> 0,
     ew_score |-> 0, ns_score |-> 0, ew_urgency |-> 0, ns_urgency |-> 0,
     target_phase |-> -1, phase_change_needed |-> FALSE,
     steps_since_j1_change |-> 0, green_run |-> 0, focus_seen |-> <<>>]

\* Let(v, F) is F(v) with v computed once: the local variables of a call
\* are bound one after the other, as the code assigns them.
Let(v, F(_)) == CHOOSE y \in {F(x) : x \in {v}} : TRUE

\* The call traci.trafficlight.setPhase(tls_id, p) for j with its outcomes:
\* the command is applied, or the call raises (raised) on a connection
\* error or a rejection.
phase_command(simst, j, p) ==
    IF connection_error(simst, "setPhase", simst.time)
    THEN [sim |-> connection_lost(simst, "setPhase"), raised |-> TRUE]
    ELSE IF command_rejected(simst, j)
    THEN [sim |-> reject_command(simst, j), raised |-> TRUE]
    ELSE [sim |-> setPhase(simst, j, p), raised |-> FALSE]

\* Variant of execute_j1: the phase-change counter is incremented outside
\* the "if phase_change_needed" block.
execute_j1_counts_always(ctrl, met, simst, stp, d1) ==
    [controller |-> IF d1.needed
                    THEN [ctrl EXCEPT !.j1_phase_timer = 0, !.j1_last_change = stp]
                    ELSE ctrl,
     metrics    |-> [met EXCEPT !.intersection_stats["J1"].phase_changes = @ + 1],
     sim        |-> IF d1.needed THEN setPhase(simst, "J1", d1.target) ELSE simst,
     raised     |-> FALSE]

\* Variant of execute_j1: the command is sent in every tick, with the
\* target phase of the tick.
execute_j1_always_commands(ctrl, met, simst, stp, d1) ==
    [controller |-> IF d1.needed
                    THEN [ctrl EXCEPT !.j1_phase_timer = 0, !.j1_last_change = stp]
                    ELSE ctrl,
     metrics    |-> IF d1.needed
                    THEN [met EXCEPT !.intersection_stats["J1"].phase_changes = @ + 1]
                    ELSE met,
     sim        |-> setPhase(simst, "J1", d1.target),
     raised     |-> FALSE]

\* Variant of execute_j1: the step of the change is not recorded
\* (j1_last_change keeps its value).
execute_j1_keeps_last_change(ctrl, met, simst, stp, d1) ==
    IF d1.needed
    THEN Let(phase_command(simst, "J1", d1.target), LAMBDA c :
            IF c.raised
            THEN [controller |-> ctrl, metrics |-> met, sim |-> c.sim, raised |-> TRUE]
            ELSE [controller |-> [ctrl EXCEPT !.j1_phase_timer = 0],
                  metrics    |-> [met EXCEPT
                                    !.intersection_stats["J1"].phase_changes = @ + 1],
                  sim        |-> c.sim,
                  raised     |-> FALSE])
    ELSE [controller |-> ctrl, metrics |-> met, sim |-> simst, raised |-> FALSE]

\* Lines 283-289: the J1 phase change is executed.  When setPhase raises,
\* the statements after it are not executed.
execute_j1(ctrl, met, simst, stp, d1) ==
    IF d1.needed
    THEN Let(phase_command(simst, "J1", d1.target), LAMBDA c :
            IF c.raised
            THEN [controller |-> ctrl, metrics |-> met, sim |-> c.sim, raised |-> TRUE]
            ELSE [controller |-> [ctrl EXCEPT !.j1_phase_timer = 0,
                                              !.j1_last_change = stp],
                  metrics    |-> [met EXCEPT
                                    !.intersection_stats["J1"].phase_changes = @ + 1],
                  sim        |-> c.sim,
                  raised     |-> FALSE])
    ELSE [controller |-> ctrl, metrics |-> met, sim |-> simst, raised |-> FALSE]

\* Variant of execute_j2: the timer is not reset.
execute_j2_no_reset(ctrl, met, simst, stp, d2) ==
    IF d2.needed
    THEN [controller |-> [ctrl EXCEPT !.j2_last_change = stp],
          metrics    |-> [met EXCEPT !.intersection_stats["J2"].phase_changes = @ + 1],
          sim        |-> setPhase(simst, "J2", d2.target),
          raised     |-> FALSE]
    ELSE [controller |-> ctrl, metrics |-> met, sim |-> simst, raised |-> FALSE]

\* Variant of execute_j2: the block resets J1's timer and last change as
\* well (the J1 block copied without renaming).
execute_j2_resets_j1(ctrl, met, simst, stp, d2) ==
    IF d2.needed
    THEN [controller |-> [ctrl EXCEPT !.j2_phase_timer = 0, !.j2_last_change = stp,
                                      !.j1_phase_timer = 0, !.j1_last_change = stp],
          metrics    |-> [met EXCEPT !.intersection_stats["J2"].phase_changes = @ + 1],
          sim        |-> setPhase(simst, "J2", d2.target),
          raised     |-> FALSE]
    ELSE [controller |-> ctrl, metrics |-> met, sim |-> simst, raised |-> FALSE]

\* Variant of execute_j2: the bookkeeping (timer, last change, counter) is
\* done before the command is sent, so it stays done when setPhase raises.
execute_j2_books_first(ctrl, met, simst, stp, d2) ==
    IF d2.needed
    THEN Let(phase_command(simst, "J2", d2.target), LAMBDA c :
            [controller |-> [ctrl EXCEPT !.j2_phase_timer = 0,
                                         !.j2_last_change = stp],
             metrics    |-> [met EXCEPT
                               !.intersection_stats["J2"].phase_changes = @ + 1],
             sim        |-> c.sim,
             raised     |-> c.raised])
    ELSE [controller |-> ctrl, metrics |-> met, sim |-> simst, raised |-> FALSE]

\* Lines 331-337: the J2 phase change is executed.
execute_j2(ctrl, met, simst, stp, d2) ==
    IF d2.needed
    THEN Let(phase_command(simst, "J2", d2.target), LAMBDA c :
            IF c.raised
            THEN [controller |-> ctrl, metrics |-> met, sim |-> c.sim, raised |-> TRUE]
            ELSE [controller |-> [ctrl EXCEPT !.j2_phase_timer = 0,
                                              !.j2_last_change = stp],
                  metrics    |-> [met EXCEPT
                                    !.intersection_stats["J2"].phase_changes = @ + 1],
                  sim        |-> c.sim,
                  raised     |-> FALSE])
    ELSE [controller |-> ctrl, metrics |-> met, sim |-> simst, raised |-> FALSE]

\* Lines 343-349: the vehicle totals of the step are added to the metrics.
update_totals(met, j1_data, j2_data) ==
    LET sum_total(data) == data["E"].total + data["W"].total
                           + data["N"].total + data["S"].total
    IN  [met EXCEPT
            !.intersection_stats["J1"].total_vehicles = @ + sum_total(j1_data),
            !.intersection_stats["J2"].total_vehicles = @ + sum_total(j2_data)]

\* The observer's record of one intersection's part of a call.
observe(cam, raw, current_phase, timer, scores, urgencies, d, since, prev) ==
    [angle |-> cam.angle, primary |-> cam.primary, secondary |-> cam.secondary,
     raw |-> raw, data |-> cam.data,
     current_phase |-> current_phase, timer |-> timer,
     ew_score |-> scores.ew, ns_score |-> scores.ns,
     ew_urgency |-> urgencies.ew, ns_urgency |-> urgencies.ns,
     target_phase |-> d.target, phase_change_needed |-> d.needed,
     steps_since_j1_change |-> since,
     green_run |-> green_run_after(prev, current_phase),
     focus_seen |-> focus_seen_after(prev, cam.primary, cam.secondary)]

\* The detector reads of a call (traci.lanearea, lines 99-103): when they
\* raise a connection-level error, every read of the call raises.
detector_reads(simst, raw) ==
    IF connection_error(simst, "lanearea", simst.time)
    THEN [sim |-> connection_lost(simst, "lanearea"),
          raw |-> [j \in Intersections |->
                      [d \in Directions |-> [raw[j][d] EXCEPT !.raises = TRUE]]]]
    ELSE [sim |-> simst, raw |-> raw]

\* Variant of j2_controlled: J2's block is entered whatever TLS_ID_J2 is.
j2_controlled_always(tls2) == TRUE

\* Line 292: "if tls_j2_id is not None" (run_optimized_simulation passes
\* None when the network has no traffic light at J2, lines 502-504).
j2_controlled(tls2) == tls2 # "None"

\* optimized_traffic_control(step, tls_j1_id, tls_j2_id, metrics) on the
\* controller ctrl, the metrics met and the simulator simst, with the raw
\* detector readings raw[j][d] of this step; prev is the previous observation.
\* raised says that the call ended with an exception (of getPhase or
\* setPhase, which the method does not catch).
optimized_traffic_control(ctrl, met, simst, stp, tls2, raw, prev) ==
    \* j1_data, j2_data = get_360_camera_data('J1' / 'J2', step)
    Let(detector_reads(simst, raw), LAMBDA det :
    Let(get_360_camera_data(ctrl, "J1", det.raw["J1"]), LAMBDA j1 :
    Let(get_360_camera_data(j1.controller, "J2", det.raw["J2"]), LAMBDA j2 :
    \* j1_phase_timer += 1; j2_phase_timer += 1
    Let([j2.controller EXCEPT !.j1_phase_timer = @ + 1,
                              !.j2_phase_timer = @ + 1], LAMBDA ctrl_t :
    \* J1: current phase, urgency scores, decision, execution
    IF connection_error(det.sim, "getPhase", det.sim.time)
    THEN [controller |-> ctrl_t, metrics |-> met,
          sim |-> connection_lost(det.sim, "getPhase"),
          obs |-> prev, raised |-> TRUE]
    ELSE
    Let(getPhase(det.sim, "J1"), LAMBDA current_j1_phase :
    Let([ew |-> calculate_urgency_score(ctrl_t, j1.data, "J1", "EW"),
         ns |-> calculate_urgency_score(ctrl_t, j1.data, "J1", "NS")], LAMBDA j1_urgency :
    Let(j1_decision(current_j1_phase, j1_urgency.ew, j1_urgency.ns,
                    ctrl_t.j1_phase_timer), LAMBDA d1 :
    Let(execute_j1(ctrl_t, met, det.sim, stp, d1), LAMBDA s1 :
    Let(stp - s1.controller.j1_last_change, LAMBDA steps_since_j1_change :
    Let(observe(j1, det.raw["J1"], current_j1_phase, ctrl_t.j1_phase_timer,
                j1_urgency, j1_urgency, d1, steps_since_j1_change,
                prev["J1"]), LAMBDA obs_j1 :
    IF s1.raised
    THEN [controller |-> s1.controller, metrics |-> s1.metrics, sim |-> s1.sim,
          obs |-> [prev EXCEPT !["J1"] = obs_j1], raised |-> TRUE]
    ELSE
    \* J2: only if it has traffic lights
    Let(IF j2_controlled(tls2) THEN getPhase(s1.sim, "J2") ELSE -1, LAMBDA current_j2_phase :
    Let(IF j2_controlled(tls2)
        THEN [ew |-> calculate_urgency_score(s1.controller, j2.data, "J2", "EW"),
              ns |-> calculate_urgency_score(s1.controller, j2.data, "J2", "NS")]
        ELSE [ew |-> 0, ns |-> 0], LAMBDA j2_score :
    Let(IF j2_controlled(tls2)
        THEN coordinate_j2(j2_score.ew, j2_score.ns, d1.target, steps_since_j1_change)
        ELSE j2_score, LAMBDA j2_urgency :
    Let(IF j2_controlled(tls2)
        THEN j2_decision(current_j2_phase, j2_urgency.ew, j2_urgency.ns,
                         s1.controller.j2_phase_timer)
        ELSE [target |-> -1, needed |-> FALSE], LAMBDA d2 :
    Let(execute_j2(s1.controller, s1.metrics, s1.sim, stp, d2), LAMBDA s2 :
    Let([J1 |-> obs_j1,
         J2 |-> observe(j2, det.raw["J2"], current_j2_phase,
                        s1.controller.j2_phase_timer,
                        j2_score, j2_urgency, d2, steps_since_j1_change,
                        prev["J2"])], LAMBDA obs_both :
    IF s2.raised
    THEN [controller |-> s2.controller, metrics |-> s2.metrics, sim |-> s2.sim,
          obs |-> obs_both, raised |-> TRUE]
    ELSE
        [controller |-> s2.controller,
         metrics    |-> update_totals(s2.metrics, j1.data, j2.data),
         sim        |-> s2.sim,
         obs        |-> obs_both,
         raised     |-> FALSE]
    ))))))))))))))))

\* TrafficMetrics.collect_step_metrics: one row appended to the CSV file,
\* unless a read of the method raises: the method catches the exception and
\* writes nothing.
collect_step_metrics(met, simst, stp) ==
    IF connection_error(simst, "metrics", simst.time)
    THEN [metrics |-> met, sim |-> connection_lost(simst, "metrics")]
    ELSE [metrics |-> [met EXCEPT !.rows = @ + 1], sim |-> simst]

-----------------------------------------------------------------------------
(* The environment: detector readings and traffic-light programs *)

\* Readings of one direction: halting vehicles, vehicles, mean waiting (s).
Zero  == [halting |-> 0,  total |-> 0,  waiting |-> 0]
Light == [halting |-> 4,  total |-> 6,  waiting |-> 10]
Heavy == [halting |-> 16, total |-> 18, waiting |-> 30]
Jam   == [halting |-> 24, total |-> 28, waiting |-> 60]

\* The readings of an intersection whose EW approaches report ew and whose
\* NS approaches report ns.
AxisProfile(ew, ns) == [d \in Directions |-> IF d \in {"E", "W"} THEN ew ELSE ns]

Profiles ==
    { AxisProfile(Zero, Zero), AxisProfile(Zero, Jam), AxisProfile(Jam, Zero),
      AxisProfile(Light, Heavy), AxisProfile(Heavy, Light), AxisProfile(Jam, Jam) }

\* The demand during a surge (SpecSurge).
SurgeProfiles ==
    { AxisProfile(Light, Jam), AxisProfile(Heavy, Light) }

\* Static programs of the simulator's traffic lights.
SimPrograms == { [green |-> 120, yellow |-> 3], [green |-> 43, yellow |-> 3] }

\* What the detectors report in a step: the surge demand while a surge is
\* active, the base demand otherwise.
\* raises marks the directions whose detector reads raise in the step: the
\* directions dem.failed[j] while the surge is active.
sensor_readings(dem) ==
    [j \in Intersections |->
        [d \in Directions |->
            LET reading == IF dem.state = "active" THEN dem.surge[j][d]
                           ELSE dem.base[j][d]
            IN  [halting |-> reading.halting, total |-> reading.total,
                 waiting |-> reading.waiting,
                 raises  |-> dem.state = "active" /\ d \in dem.failed[j]]]]

\* No detector fails.
NoneFailed == [j \in Intersections |-> {}]

\* The demand of the next step: the base demand, interrupted by at most one
\* surge of at most MaxSurgeLen steps.
SurgeSucc(dem) ==
    IF dem.state = "pending"
    THEN {dem, [dem EXCEPT !.state = "active", !.lasted = 1]}
    ELSE IF dem.state = "active"
    THEN {[dem EXCEPT !.state = "over"]}
         \cup (IF dem.lasted < MaxSurgeLen
               THEN {[dem EXCEPT !.lasted = @ + 1]} ELSE {})
    ELSE {dem}

-----------------------------------------------------------------------------
(* run_optimized_simulation *)

\* Variant of InitController: both cameras start at angle 0.
InitControllerAligned ==
    [j1_camera_angle |-> 0, j2_camera_angle |-> 0,
     j1_phase_timer |-> 0, j2_phase_timer |-> 0,
     j1_last_change |-> 0, j2_last_change |-> 0,
     traffic_history |-> [j \in Intersections |-> [d \in Directions |-> <<>>]]]

\* controller = OptimizedTrafficController()
InitController ==
    [j1_camera_angle |-> 0, j2_camera_angle |-> 180,
     j1_phase_timer |-> 0, j2_phase_timer |-> 0,
     j1_last_change |-> 0, j2_last_change |-> 0,
     traffic_history |-> [j \in Intersections |-> [d \in Directions |-> <<>>]]]

\* metrics = TrafficMetrics()
InitMetrics ==
    [intersection_stats |->
        [j \in Intersections |-> [total_vehicles |-> 0, total_delay |-> 0,
                                  phase_changes |-> 0]],
     rows |-> 0]

InitSim(prog) ==
    [program |-> prog,
     tls |-> [j \in Intersections |-> [phase |-> 0, elapsed |-> 0, commands |-> 0]],
     time |-> 0, connected |-> TRUE, plan |-> NoFaults,
     late_calls |-> {}, rejected |-> {}]

InitObs == [j \in Intersections |-> NoObservation]

NoAlt == [enabled |-> FALSE]

\* The body of the while loop (lines 515-523) for step stp on a run
\* r = [controller, metrics, sim, tls_j2_id, obs] with detector readings raw.
\* raised says that an exception left the loop.
loop_body(r, stp, raw) ==
    IF connection_error(r.sim, "simulationStep", r.sim.time + 1)
    THEN [controller |-> r.controller, metrics |-> r.metrics,
          sim |-> connection_lost(r.sim, "simulationStep"),
          tls_j2_id |-> r.tls_j2_id, obs |-> r.obs, raised |-> TRUE]
    ELSE
    Let(simulationStep(r.sim, r.tls_j2_id), LAMBDA stepped :
    Let(optimized_traffic_control(r.controller, r.metrics, stepped, stp,
                                  r.tls_j2_id, raw, r.obs), LAMBDA c :
    Let(IF ~c.raised /\ stp % metrics_every = 0
        THEN collect_step_metrics(c.metrics, c.sim, stp)
        ELSE [metrics |-> c.metrics, sim |-> c.sim], LAMBDA m :
        [controller |-> c.controller,
         metrics    |-> m.metrics,
         sim        |-> m.sim,
         tls_j2_id  |-> r.tls_j2_id,
         obs        |-> c.obs,
         raised     |-> c.raised]
    )))

ThisRun ==
    [controller |-> controller, metrics |-> metrics, sim |-> sim,
     tls_j2_id |-> tls_j2_id, obs |-> obs]

\* One iteration of the run loop, up to horizon steps, the demand moving to
\* one of next_demand.  An exception that leaves the loop body is caught by
\* "except Exception" (line 543), which prints "Simulation error", and the
\* finally block closes the connection.
Iterate(horizon, next_demand) ==
    /\ running
    /\ step < horizon
    /\ step' = step + 1
    /\ demand' \in next_demand
    /\ \E r \in {loop_body(ThisRun, step + 1, sensor_readings(demand'))} :
           /\ controller' = r.controller
           /\ metrics' = r.metrics
           /\ sim' = r.sim
           /\ obs' = r.obs
           /\ running' = ~r.raised
           /\ simulation_error' = r.raised
    /\ UNCHANGED tls_j2_id

\* The loop ends (step reached its limit) and the finally block closes the
\* connection.
Close(horizon) ==
    /\ running
    /\ step = horizon
    /\ running' = FALSE
    /\ UNCHANGED <<controller, metrics, sim, tls_j2_id, step, demand, obs, alt,
                    simulation_error>>

Init ==
    /\ controller = InitController
    /\ metrics = InitMetrics
    /\ \E prog \in SimPrograms : sim = InitSim(prog)
    /\ tls_j2_id \in {"1017322720", "None"}
    /\ step = 0
    /\ running = TRUE
    /\ \E b \in [Intersections -> Profiles] :
          demand = [base |-> b, surge |-> b, state |-> "pending", lasted |-> 0,
                    failed |-> NoneFailed]
    /\ obs = InitObs
    /\ alt = NoAlt
    /\ simulation_error = FALSE

Tick == Iterate(MaxStep, {demand}) /\ UNCHANGED alt

Finish == Close(MaxStep)

Next == Tick \/ Finish

Spec == Init /\ [][Next]_vars

\* Runs under sustained one-sided demand: at each intersection one axis
\* reports 24 halting vehicles per approach and the other axis none.
InitLive ==
    /\ controller = InitController
    /\ metrics = InitMetrics
    /\ \E prog \in SimPrograms : sim = InitSim(prog)
    /\ tls_j2_id \in {"1017322720", "None"}
    /\ step = 0
    /\ running = TRUE
    /\ \E b \in [Intersections -> {AxisProfile(Jam, Zero), AxisProfile(Zero, Jam)}] :
          demand = [base |-> b, surge |-> b, state |-> "pending", lasted |-> 0,
                    failed |-> NoneFailed]
    /\ obs = InitObs
    /\ alt = NoAlt
    /\ simulation_error = FALSE

\* The run loop is a plain "while step < 86400" without blocking waits: an
\* iteration that can be taken is taken.
SpecLive == InitLive /\ [][Next]_vars /\ WF_vars(Next)

-----------------------------------------------------------------------------
(* The run under a demand that surges once *)

InitSurge ==
    /\ controller = InitController
    /\ metrics = InitMetrics
    /\ sim = InitSim([green |-> 120, yellow |-> 3])
    /\ tls_j2_id \in {"1017322720", "None"}
    /\ step = 0
    /\ running = TRUE
    /\ \E b \in {AxisProfile(Zero, Zero), AxisProfile(Light, Light)}, s \in SurgeProfiles :
          demand = [base |-> [j \in Intersections |-> b],
                    surge |-> [j \in Intersections |-> s],
                    state |-> "pending", lasted |-> 0, failed |-> NoneFailed]
    /\ obs = InitObs
    /\ alt = NoAlt
    /\ simulation_error = FALSE

SurgeTick == Iterate(SurgeHorizon, SurgeSucc(demand)) /\ UNCHANGED alt

SurgeFinish == Close(SurgeHorizon)

NextSurge == SurgeTick \/ SurgeFinish

SpecSurge == InitSurge /\ [][NextSurge]_vars

-----------------------------------------------------------------------------
(* The run with detectors that fail for a while *)

\* The detector reads of the directions failed (J1) and of all other
\* directions (J2) raise during one window of at most MaxSurgeLen steps; the
\* traffic itself stays the same.
InitOutage ==
    /\ controller = InitController
    /\ metrics = InitMetrics
    /\ sim = InitSim([green |-> 120, yellow |-> 3])
    /\ tls_j2_id = "1017322720"
    /\ step = 0
    /\ running = TRUE
    /\ \E failed \in SUBSET Directions :
          demand = [base |-> [j \in Intersections |-> AxisProfile(Heavy, Light)],
                    surge |-> [j \in Intersections |-> AxisProfile(Heavy, Light)],
                    state |-> "pending", lasted |-> 0,
                    failed |-> [J1 |-> failed, J2 |-> Directions \ failed]]
    /\ obs = InitObs
    /\ alt = NoAlt
    /\ simulation_error = FALSE

OutageTick == Iterate(OutageHorizon, SurgeSucc(demand)) /\ UNCHANGED alt

OutageFinish == Close(OutageHorizon)

NextOutage == OutageTick \/ OutageFinish

SpecOutage == InitOutage /\ [][NextOutage]_vars

-----------------------------------------------------------------------------
(* The run against a simulator that rejects commands or drops the connection *)

\* What the simulator may do to a run: nothing, reject the phase commands
\* of one intersection from some second on, or break the connection at one
\* call of one second.
FaultPlans ==
    {NoFaults}
    \cup { [NoFaults EXCEPT !.rejects = {j}, !.reject_from = t] :
              j \in Intersections, t \in 0 .. FaultHorizon }
    \cup { [NoFaults EXCEPT !.drop_at = c, !.drop_time = t] :
              c \in Calls, t \in 1 .. FaultHorizon }

InitFault ==
    /\ controller = InitController
    /\ metrics = InitMetrics
    /\ \E plan \in FaultPlans :
          sim = [InitSim([green |-> 120, yellow |-> 3]) EXCEPT !.plan = plan]
    /\ tls_j2_id = "1017322720"
    /\ step = 0
    /\ running = TRUE
    /\ \E p \in {AxisProfile(Light, Heavy), AxisProfile(Jam, Jam)} :
          demand = [base |-> [j \in Intersections |-> p],
                    surge |-> [j \in Intersections |-> p],
                    state |-> "pending", lasted |-> 0, failed |-> NoneFailed]
    /\ obs = InitObs
    /\ alt = NoAlt
    /\ simulation_error = FALSE

FaultTick == Iterate(FaultHorizon, {demand}) /\ UNCHANGED alt

FaultFinish == Close(FaultHorizon)

NextFault == FaultTick \/ FaultFinish

SpecFault == InitFault /\ [][NextFault]_vars

-----------------------------------------------------------------------------
(* Two runs that agree on everything about J1 and differ in J2 *)

\* The second run: same program, same J1 demand, its own J2 demand and its
\* own TLS_ID_J2.
InitPair ==
    /\ controller = InitController
    /\ metrics = InitMetrics
    /\ \E prog \in SimPrograms : sim = InitSim(prog)
    /\ tls_j2_id = "1017322720"
    /\ step = 0
    /\ running = TRUE
    /\ \E p \in Profiles :
          demand = [base |-> [J1 |-> p, J2 |-> AxisProfile(Jam, Jam)],
                    surge |-> [J1 |-> p, J2 |-> AxisProfile(Jam, Jam)],
                    state |-> "pending", lasted |-> 0, failed |-> NoneFailed]
    /\ obs = InitObs
    /\ simulation_error = FALSE
    /\ \E q \in Profiles, t \in {"1017322720", "None"} :
          alt = [enabled |-> TRUE,
                 run |-> [controller |-> InitController, metrics |-> InitMetrics,
                          sim |-> sim, tls_j2_id |-> t, obs |-> InitObs],
                 demand |-> [demand EXCEPT !.base["J2"] = q, !.surge["J2"] = q]]

PairTick ==
    /\ Iterate(MaxStep, {demand})
    /\ alt' = [alt EXCEPT !.run = loop_body(alt.run, step + 1,
                                            sensor_readings(alt.demand))]

PairFinish == Close(MaxStep)

NextPair == PairTick \/ PairFinish

SpecPair == InitPair /\ [][NextPair]_vars

-----------------------------------------------------------------------------
(* Properties *)

Timer(j) == IF j = "J1" THEN controller.j1_phase_timer ELSE controller.j2_phase_timer

LastChange(j) == IF j = "J1" THEN controller.j1_last_change ELSE controller.j2_last_change

PhaseChanges(j) == metrics.intersection_stats[j].phase_changes

\* setPhase calls the simulator has received for j.
Commands(j) == sim.tls[j].commands

Controlled == {"J1"} \cup (IF tls_j2_id = "None" THEN {} ELSE {"J2"})

\* The switch ratio of an intersection, in tenths.
RatioTenths(j) == IF j = "J1" THEN 15 ELSE 14

\* The urgency of the axis that is green / red in the phase j reported.
GreenUrgency(j) == IF obs[j].current_phase = 0 THEN obs[j].ew_urgency ELSE obs[j].ns_urgency
RedUrgency(j) == IF obs[j].current_phase = 0 THEN obs[j].ns_urgency ELSE obs[j].ew_urgency

\* The urgency-ratio condition of the last tick.
RatioHolds(j) == 10 * RedUrgency(j) > RatioTenths(j) * GreenUrgency(j)

\* C1: min-green floor.  In every tick and for each intersection, a timer
\* below min_green_time (20) means that no transition is commanded, whatever
\* the urgencies; and a commanded change follows the intersection's previous
\* commanded change by at least 20 ticks.
MinGreenFloor ==
    [][\A j \in Intersections :
          /\ (obs'[j].timer < 20 => ~obs'[j].phase_change_needed)
          /\ (obs'[j].timer < 20 => Commands(j)' = Commands(j))
          /\ (Commands(j)' # Commands(j) /\ PhaseChanges(j) >= 1
                => step' - LastChange(j) >= 20)]_vars

\* C1 witness: after an earlier change, an intersection is in a green phase
\* with its timer below 20 and the urgency ratio asking for a switch, and
\* holds.
MinGreenFloorWitness ==
    \E j \in Controlled :
        /\ PhaseChanges(j) >= 1
        /\ obs[j].current_phase \in GreenPhases
        /\ obs[j].timer < 20
        /\ RatioHolds(j)
        /\ ~obs[j].phase_change_needed

\* C2: max-green ceiling.  When the timer has reached max_green_time (90)
\* in a green phase, the switch to the other green phase is commanded in
\* that tick, whatever the urgencies; no intersection reports the same green
\* phase for more than 90 consecutive ticks.
MaxGreenCeiling ==
    \A j \in Intersections :
        /\ (obs[j].current_phase \in GreenPhases /\ obs[j].timer >= 90
              => /\ obs[j].phase_change_needed
                 /\ obs[j].target_phase = 2 - obs[j].current_phase)
        /\ obs[j].green_run <= 90

\* C2 witness: a forced switch of J2 at timer 90 with the urgency-ratio
\* condition false, after 90 ticks of the same green phase.
MaxGreenCeilingWitness ==
    /\ obs["J2"].current_phase \in GreenPhases
    /\ obs["J2"].timer = 90
    /\ obs["J2"].green_run = 90
    /\ ~RatioHolds("J2")
    /\ obs["J2"].phase_change_needed

\* C3: reset law.  The timer is 0 after a tick that commanded a transition,
\* one more than before after a tick that did not, and changes in no other
\* step.
TimerLaw ==
    [][\A j \in Intersections :
          Timer(j)' = IF Commands(j)' # Commands(j) THEN 0
                      ELSE IF step' = step + 1 THEN Timer(j) + 1
                      ELSE Timer(j)]_vars

\* C3 witness: J2 has just been reset by its second transition while J1's
\* timer keeps counting.
TimerLawWitness ==
    /\ obs["J2"].phase_change_needed
    /\ Commands("J2") = 2
    /\ Timer("J2") = 0
    /\ Timer("J1") > 20

\* C4: the phase-change counter moves by exactly one per commanded
\* transition, and only in a tick whose target phase differs from the
\* reported phase.
CounterLaw ==
    [][\A j \in Intersections :
          /\ PhaseChanges(j)' - PhaseChanges(j) = Commands(j)' - Commands(j)
          /\ PhaseChanges(j)' - PhaseChanges(j) \in {0, 1}
          /\ (PhaseChanges(j)' # PhaseChanges(j)
                => obs'[j].target_phase # obs'[j].current_phase)
          /\ (step' = step + 1 /\ obs'[j].target_phase = obs'[j].current_phase
                => PhaseChanges(j)' = PhaseChanges(j))]_vars

\* C4 witness: J's first counted change is a forced switch at a timer beyond
\* 90: the ticks in yellow at timer >= 90 (target = reported phase) before
\* it counted nothing.
CounterLawWitness ==
    \E j \in Controlled :
        /\ obs[j].phase_change_needed
        /\ obs[j].timer > 90
        /\ PhaseChanges(j) = 1
        /\ Commands(j) = 1

\* All detector readings of j were zero in the last tick.
ReadingsZero(j) ==
    \A d \in Directions :
        obs[j].raw[d].halting = 0 /\ obs[j].raw[d].total = 0 /\ obs[j].raw[d].waiting = 0

\* C5: zero-traffic boundary.  In a tick in which all detector readings of
\* an intersection are zero, both its urgencies are 0 and a transition is
\* commanded only by the max-green rule.
ZeroTrafficHolds ==
    \A j \in Controlled :
        (step >= 1 /\ ReadingsZero(j))
            => /\ obs[j].ew_urgency = 0
               /\ obs[j].ns_urgency = 0
               /\ (obs[j].phase_change_needed => obs[j].timer >= 90)

\* C6: camera wrap.  Each camera angle stays in [0, 360), a rotation takes
\* 36 ticks, and the focus pair of a tick equals the pair 36 ticks earlier.
CameraWrap ==
    /\ controller.j1_camera_angle \in 0 .. 359
    /\ controller.j2_camera_angle \in 0 .. 359
    /\ CameraPeriod = 36
    /\ \A j \in Intersections :
          /\ step >= 1 => /\ obs[j].focus_seen[Len(obs[j].focus_seen)]
                                = <<obs[j].primary, obs[j].secondary>>
                          /\ Len(obs[j].focus_seen) = IF step > 36 THEN 37 ELSE step
          /\ Len(obs[j].focus_seen) = 37 => obs[j].focus_seen[1] = obs[j].focus_seen[37]

\* C6 witness: J1's camera has wrapped three times and looks where it looked
\* 36 ticks before.
CameraWrapWitness ==
    /\ step = 110
    /\ controller.j1_camera_angle = 20
    /\ Len(obs["J1"].focus_seen) = 37
    /\ obs["J1"].focus_seen[1] = <<"E", "N">>
    /\ obs["J1"].primary = "E" /\ obs["J1"].secondary = "N"

\* C7: transition rule.  In EastWestGreen a switch to NorthSouthGreen is
\* commanded iff (timer >= 20 and urgency(NS) > urgency(EW) * ratio) or
\* timer >= 90; NorthSouthGreen mirrors it; a switch leaves the timer at 0.
\* Scenarios A and B: urgencies 100 against 1 give no switch at timer 5 and
\* a switch to NorthSouthGreen at timer 25.
TransitionRule ==
    /\ \A j \in Controlled :
          step >= 1 =>
            /\ obs[j].current_phase = 0 =>
                 /\ obs[j].phase_change_needed
                      <=> \/ /\ obs[j].timer >= 20
                             /\ 10 * obs[j].ns_urgency > RatioTenths(j) * obs[j].ew_urgency
                          \/ obs[j].timer >= 90
                 /\ obs[j].phase_change_needed
                      => obs[j].target_phase = 2 /\ Timer(j) = 0 /\ getPhase(sim, j) = 2
            /\ obs[j].current_phase = 2 =>
                 /\ obs[j].phase_change_needed
                      <=> \/ /\ obs[j].timer >= 20
                             /\ 10 * obs[j].ew_urgency > RatioTenths(j) * obs[j].ns_urgency
                          \/ obs[j].timer >= 90
                 /\ obs[j].phase_change_needed
                      => obs[j].target_phase = 0 /\ Timer(j) = 0 /\ getPhase(sim, j) = 0
    /\ ~j1_decision(0, 1 * Unit, 100 * Unit, 5).needed
    /\ j1_decision(0, 1 * Unit, 100 * Unit, 25) = [target |-> 2, needed |-> TRUE]
    /\ ~j2_decision(0, 1 * Unit, 100 * Unit, 5).needed
    /\ j2_decision(0, 1 * Unit, 100 * Unit, 25) = [target |-> 2, needed |-> TRUE]

\* C7 witness: an urgency-triggered switch from NorthSouthGreen back to
\* EastWestGreen, before max_green_time.
TransitionRuleWitness ==
    \E j \in Controlled :
        /\ obs[j].current_phase = 2
        /\ obs[j].timer >= 20 /\ obs[j].timer < 90
        /\ 10 * obs[j].ew_urgency > RatioTenths(j) * obs[j].ns_urgency
        /\ obs[j].phase_change_needed
        /\ Timer(j) = 0

\* The closed form of C8 for the axis of directions a and b of j, times 100:
\* (halting*4.0 + total*1.5 + waiting*0.8 + max(0,trend)*2.5) * m + 3.0*halting
\* with waiting the mean of the two waiting values and trend the larger of
\* the two trends.
UrgencyClosedForm100(j, a, b) ==
    LET halting == obs[j].data[a].halting + obs[j].data[b].halting
        total == obs[j].data[a].total + obs[j].data[b].total
        waiting2 == obs[j].data[a].waiting + obs[j].data[b].waiting
        trend == Max(predict_traffic_trend(controller, j, a),
                     predict_traffic_trend(controller, j, b))
        m10 == IF halting >= 25 THEN 20 ELSE IF halting >= 18 THEN 15 ELSE 10
    IN  (40 * Unit * halting + 15 * Unit * total + 4 * waiting2
         + 25 * Max(0, trend)) * m10 + 300 * Unit * halting

\* C8: urgency escalation.  Each axis score is the weighted sum times
\* exactly one multiplier (2.0 from 25 halting, 1.5 from 18 to 24, else 1),
\* plus the queue-clearing bonus 3.0 * halting, which is not multiplied.
UrgencyFormula ==
    \A j \in Controlled :
        step >= 1 =>
            /\ 100 * obs[j].ew_score = UrgencyClosedForm100(j, "E", "W")
            /\ 100 * obs[j].ns_score = UrgencyClosedForm100(j, "N", "S")

\* C8 witness: 30 halting vehicles on the NS axis (emergency) with a rising
\* trend, in the same tick as an EW axis below the congestion threshold.
UrgencyFormulaWitness ==
    /\ step >= 1
    /\ obs["J1"].data["N"].halting + obs["J1"].data["S"].halting = 30
    /\ predict_traffic_trend(controller, "J1", "N") > 0
    /\ obs["J1"].data["E"].halting + obs["J1"].data["W"].halting \in 1 .. 17
    /\ obs["J1"].ns_score > 2 * 30 * 4 * Unit

\* C9: coordination boost.  When J1's decided phase is EastWestGreen and J1
\* changed phase fewer than 40 ticks ago, the EW urgency J2 decides with is
\* 3.25 times its unboosted score; J2's NS urgency is its unboosted score.
CoordinationBoost ==
    (tls_j2_id # "None" /\ step >= 1) =>
        /\ (/\ obs["J1"].target_phase = 0
            /\ PhaseChanges("J1") >= 1
            /\ step - LastChange("J1") < 40)
              => 100 * obs["J2"].ew_urgency = 325 * obs["J2"].ew_score
        /\ obs["J2"].ns_urgency = obs["J2"].ns_score
        /\ obs["J2"].ns_score = calculate_urgency_score(controller, obs["J2"].data, "J2", "NS")

\* C9 witness: J1 switched to EastWestGreen 5 ticks ago and J2 has EW
\* traffic to boost.
CoordinationBoostWitness ==
    /\ tls_j2_id # "None"
    /\ obs["J1"].target_phase = 0
    /\ PhaseChanges("J1") >= 1
    /\ step - LastChange("J1") = 5
    /\ obs["J2"].ew_score > 0
    /\ obs["J2"].ew_urgency > 3 * obs["J2"].ew_score

\* What a run shows of J1: its timer, last change, change count, the
\* decision of the last tick and its traffic light.
J1View(r) ==
    <<r.controller.j1_phase_timer, r.controller.j1_last_change,
      r.controller.j1_camera_angle, r.controller.traffic_history["J1"],
      r.metrics.intersection_stats["J1"].phase_changes,
      r.obs["J1"].current_phase, r.obs["J1"].target_phase,
      r.obs["J1"].phase_change_needed, r.sim.tls["J1"]>>

\* C10: one-directional coupling.  Two runs with the same J1 readings and
\* the same J1 traffic light agree on everything about J1, whatever J2's
\* readings are and whether J2 has a traffic light.
OneWayCoupling == alt.enabled => J1View(ThisRun) = J1View(alt.run)

\* C10 witness: the two runs differ in J2 (one commanded J2 twice, the
\* other has no J2 traffic light) while J1 has changed phase in both.
OneWayCouplingWitness ==
    /\ alt.enabled
    /\ alt.run.tls_j2_id = "None"
    /\ Commands("J2") >= 2
    /\ alt.run.sim.tls["J2"].commands = 0
    /\ PhaseChanges("J1") >= 2
    /\ alt.run.metrics.intersection_stats["J1"].phase_changes >= 2

\* The traffic_data entries get_360_camera_data stores for a failed read.
ZeroEntries == [halting |-> 0, total |-> 0, waiting |-> 0]

\* The decision of the last tick of j, recomputed from what the tick saw.
DecisionOf(j) ==
    IF j = "J1"
    THEN j1_decision(obs[j].current_phase, obs[j].ew_urgency, obs[j].ns_urgency,
                     obs[j].timer)
    ELSE j2_decision(obs[j].current_phase, obs[j].ew_urgency, obs[j].ns_urgency,
                     obs[j].timer)

\* C11: sensor unavailability is absorbed.  Whatever subset of directions
\* fails in a tick, nothing is raised, the record returned has halting,
\* total and waiting entries for E, W, N and S, the entries of each failed
\* direction are 0, and the scoring and the phase decision of the tick are
\* those of the record returned.
SensorOutageAbsorbed ==
    step >= 1 =>
        /\ ~simulation_error
        /\ \A j \in Intersections :
              /\ DOMAIN obs[j].data = Directions
              /\ \A d \in Directions :
                    /\ DOMAIN obs[j].data[d] = {"halting", "total", "waiting"}
                    /\ obs[j].raw[d].raises => obs[j].data[d] = ZeroEntries
        /\ \A j \in Controlled :
              /\ obs[j].ew_score = calculate_urgency_score(controller, obs[j].data, j, "EW")
              /\ obs[j].ns_score = calculate_urgency_score(controller, obs[j].data, j, "NS")
              /\ DecisionOf(j) = [target |-> obs[j].target_phase,
                                  needed |-> obs[j].phase_change_needed]

\* C11 witness: in one tick some reads of an intersection fail on approaches
\* that hold vehicles, another approach is still seen, and the intersection
\* decides a phase change on the record it got.
SensorOutageAbsorbedWitness ==
    \E j \in Controlled :
        /\ \E d \in Directions :
              /\ obs[j].raw[d].raises
              /\ obs[j].raw[d].halting > 0
              /\ obs[j].data[d] = ZeroEntries
        /\ \E d \in Directions : ~obs[j].raw[d].raises /\ obs[j].data[d].halting > 0
        /\ obs[j].phase_change_needed
        /\ ~simulation_error

\* The camera angle of j: it moves in every call of get_360_camera_data, so
\* the observation of j is of the current tick iff it carries this angle.
CameraAngle(j) ==
    IF j = "J1" THEN controller.j1_camera_angle ELSE controller.j2_camera_angle

\* C12: actuator-rejection isolation.  When the simulator has rejected the
\* phase command of one intersection, the other intersection's decision of
\* that tick is still evaluated and applied, and the run goes on with the
\* later ticks (it ends only at its last step).
RejectionIsolated ==
    \A j \in sim.rejected :
        /\ running \/ step = FaultHorizon
        /\ ~simulation_error
        /\ \A k \in Controlled \ {j} :
              /\ obs[k].angle = CameraAngle(k)
              /\ obs[k].timer >= 1
              /\ obs[k].phase_change_needed => getPhase(sim, k) = obs[k].target_phase

\* C13: connection loss is fatal.  Once a call into the simulator has
\* failed with a connection-level error, the run is stopped and closed, the
\* failure is reported, and no call was issued after the failing one.
ConnectionLossFatal ==
    ~sim.connected =>
        /\ ~running
        /\ simulation_error
        /\ sim.late_calls = {}

\* C14: fairness under one-sided demand.  Whatever the urgencies are, a
\* green phase an intersection reports is followed by the other green phase
\* (or by a report that is not a green phase): every green phase ends and
\* the other axis is served.  Within the steps explored this is required of
\* every green phase whose max_green_time lies before the last step.
GreenPhaseEnds ==
    \A j \in Intersections : \A p \in GreenPhases :
        [](( /\ j \in Controlled
             /\ step >= 1
             /\ obs[j].current_phase = p
             /\ step + max_green_time - obs[j].timer <= MaxStep )
            => <>( \/ getPhase(sim, j) = 2 - p
                   \/ obs[j].current_phase \notin GreenPhases ))

\* C14 witness: the EW axis has dominated in every tick (24 halting
\* vehicles per approach against none), the intersection has reported
\* green phases only, and it reports NorthSouthGreen.
GreenPhaseEndsWitness ==
    \E j \in Controlled :
        /\ demand.base[j] = AxisProfile(Jam, Zero)
        /\ sim.program.green > MaxStep
        /\ obs[j].current_phase = 2
        /\ obs[j].ew_urgency > 0 /\ obs[j].ns_urgency = 0
        /\ PhaseChanges(j) = 1

\* C15: metrics are emitted on every tick.  After s ticks of the run loop
\* the metrics sink holds s records: each tick appended exactly one,
\* whether or not a transition was decided.
MetricsEveryTick == metrics.rows = step

\* The history buffer of direction d at intersection j.
History(j, d) == controller.traffic_history[j][d]

\* C16: history bound.  The buffers are empty at controller creation; after
\* every tick each buffer holds at most 10 entries; a tick that records a
\* count in a buffer appends it at the end, and when the buffer held 10
\* entries the oldest entry, and only that one, is discarded; a tick that
\* records nothing in a buffer leaves it as it is.
HistoryBound ==
    [][\A j \in Intersections : \A d \in Directions :
          /\ step = 0 => History(j, d) = <<>>
          /\ Len(History(j, d)') <= 10
          /\ (step' = step + 1 /\ obs'[j].primary = d)
                => History(j, d)' =
                      Append(IF Len(History(j, d)) = 10
                             THEN Tail(History(j, d)) ELSE History(j, d),
                             obs'[j].data[d].halting)
          /\ (step' = step + 1 /\ obs'[j].primary # d)
                => History(j, d)' = History(j, d)]_vars

\* C16 witness: J1's East buffer after its 12th append (the camera faces
\* East in steps 1-4 and 32-40): 10 entries, the two oldest discarded, with
\* entries that differ.
HistoryBoundWitness ==
    /\ step = 39
    /\ obs["J1"].primary = "E"
    /\ Len(History("J1", "E")) = 10
    /\ History("J1", "E")[10] = obs["J1"].data["E"].halting
    /\ History("J1", "E")[1] # History("J1", "E")[10]

\* C17: history is fed once per tick per direction.  After s ticks every
\* buffer has received s entries (so it holds s of them, 10 from the tenth
\* tick on), and its newest entry is the direction's halting count of the
\* current tick.
HistoryFedEveryTick ==
    \A j \in Intersections : \A d \in Directions :
        step >= 1 =>
            /\ Len(History(j, d)) = IF step > 10 THEN 10 ELSE step
            /\ History(j, d)[Len(History(j, d))] = obs[j].data[d].halting

\* C18: trend prediction.  For every buffer, predict_traffic_trend is 0
\* when the buffer holds fewer than 5 samples and otherwise exactly
\* (most recent sample - fifth most recent sample) / 5.
TrendLaw ==
    \A j \in Intersections : \A d \in Directions :
        LET n == Len(History(j, d))
            trend == predict_traffic_trend(controller, j, d)
        IN  /\ n < 5 => trend = 0
            /\ n >= 5 => 5 * trend = (History(j, d)[n] - History(j, d)[n - 4]) * Unit

\* C18 witness: one buffer holds more than 5 samples, its fifth most recent
\* sample differs from its newest and from its oldest one and the trend is
\* negative, while another buffer holds fewer than 5 samples, not zero, and
\* has trend 0.
TrendLawWitness ==
    /\ \E j \in Intersections : \E d \in Directions :
          LET n == Len(History(j, d))
          IN  /\ n > 5
              /\ History(j, d)[n] # History(j, d)[n - 4]
              /\ History(j, d)[1] # History(j, d)[n - 4]
              /\ predict_traffic_trend(controller, j, d) < 0
    /\ \E j \in Intersections : \E d \in Directions :
          LET n == Len(History(j, d))
          IN  /\ n \in 1 .. 4
              /\ History(j, d)[n] > 0
              /\ predict_traffic_trend(controller, j, d) = 0

\* C19: actuation only on a decided transition.  In each tick a setPhase
\* command is sent for an intersection iff a transition was decided for it
\* in that tick; the command carries the decided phase, which is a green
\* phase other than the reported one; in a tick that holds the phase the
\* traffic light only follows its own program.
CommandOnlyOnTransition ==
    [][step' = step + 1 =>
        \A j \in Intersections :
          /\ Commands(j)' - Commands(j) = IF obs'[j].phase_change_needed THEN 1 ELSE 0
          /\ obs'[j].phase_change_needed
                => /\ getPhase(sim', j) = obs'[j].target_phase
                   /\ obs'[j].target_phase \in GreenPhases
                   /\ obs'[j].target_phase # obs'[j].current_phase
          /\ ~obs'[j].phase_change_needed
                => sim'.tls[j] = simulationStep(sim, tls_j2_id).tls[j]]_vars

\* C19 witness: in one tick J2 is sent its second command, back to
\* EastWestGreen, while J1 holds its phase and is sent nothing (it has
\* received one command so far).
CommandOnlyOnTransitionWitness ==
    /\ obs["J2"].phase_change_needed
    /\ obs["J2"].current_phase = 2 /\ obs["J2"].target_phase = 0
    /\ getPhase(sim, "J2") = 0
    /\ Commands("J2") = 2
    /\ ~obs["J1"].phase_change_needed
    /\ obs["J1"].target_phase = obs["J1"].current_phase
    /\ Commands("J1") = 1

\* The sectors of C20: 90 degrees wide, centered at 0 = East, 90 = North,
\* 180 = West, 270 = South.
SectorCenter(d) == IF d = "E" THEN 0 ELSE IF d = "N" THEN 90 ELSE IF d = "W" THEN 180 ELSE 270

\* The signed distance of angle a from the center of d's sector, in -180 .. 179.
OffsetFrom(d, a) == ((a - SectorCenter(d) + 180) % 360) - 180

\* The direction whose sector contains a.
SectorOf(a) == CHOOSE d \in Directions : OffsetFrom(d, a) >= -45 /\ OffsetFrom(d, a) < 45

\* The two directions next to d.
Adjacent(d) == IF d \in {"E", "W"} THEN {"N", "S"} ELSE {"E", "W"}

\* The angles a camera takes.
CameraAngles == {k * camera_rotation_speed : k \in 0 .. CameraPeriod - 1}

\* C20: camera focus partition.  The primary direction of an angle is the
\* direction whose sector contains it; the secondary direction is one of
\* the two neighbours of the primary; and within a sector the secondary
\* switches at the sector's center and nowhere else: two angles of a sector
\* have the same secondary iff they lie on the same side of the center.
FocusPartition ==
    \A j \in Intersections :
        step >= 1 =>
            LET a == obs[j].angle
                p == SectorOf(a)
            IN  /\ obs[j].primary = p
                /\ obs[j].secondary \in Adjacent(p)
                /\ \A b \in CameraAngles :
                      SectorOf(b) = p
                        => ( (OffsetFrom(p, a) < 0) = (OffsetFrom(p, b) < 0)
                               <=> get_camera_focus(b)[2] = obs[j].secondary )

-----------------------------------------------------------------------------
(* The recency window of the coordination (lines 299-307) *)

\* J1 has commanded a phase change and the last one is fewer than
\* coordination_window ticks old, counted as the code counts them
\* (step - j1_last_change, after J1's part of the tick).
J1ChangedRecently ==
    /\ PhaseChanges("J1") >= 1
    /\ obs["J2"].steps_since_j1_change < coordination_window

\* The EW urgency J2 decides with carries the x1.3 recency multiplier on top
\* of what the coordination weight leaves of its score.
RecencyMultiplied ==
    \/ 100 * obs["J2"].ew_urgency = 130 * obs["J2"].ew_score
    \/ 100 * obs["J2"].ew_urgency = 325 * obs["J2"].ew_score

\* C21: recency boost.  In every tick in which J1 changed phase within the
\* last 40 ticks, J2's EW urgency carries the x1.3 multiplier, whichever
\* green phase J1 changed to.
RecencyBoostEitherPhase ==
    (tls_j2_id # "None" /\ step >= 1 /\ ~simulation_error /\ J1ChangedRecently)
        => RecencyMultiplied

\* C26: no spurious recency boost.  In a tick in which J1 has commanded no
\* phase change during the preceding 40 ticks, and in particular before J1's
\* first phase change, J2's EW urgency carries no x1.3 multiplier: it is its
\* score, or 2.5 times its score.
NoSpuriousRecencyBoost ==
    (tls_j2_id # "None" /\ step >= 1 /\ ~simulation_error /\ ~J1ChangedRecently)
        => \/ obs["J2"].ew_urgency = obs["J2"].ew_score
           \/ 10 * obs["J2"].ew_urgency = 25 * obs["J2"].ew_score

\* C22: state unchanged on a failed decision.  In a tick that ends with an
\* exception, an intersection whose phase command was not applied (its phase
\* could not be read, or its setPhase raised, or the tick never came to it)
\* keeps its last-change tick and its phase-change counter, and its timer is
\* not reset: it is what it was, or one more.
FailedDecisionKeepsState ==
    [][ (simulation_error' /\ ~simulation_error) =>
            \A j \in Intersections :
                Commands(j)' = Commands(j) =>
                    /\ LastChange(j)' = LastChange(j)
                    /\ PhaseChanges(j)' = PhaseChanges(j)
                    /\ Timer(j)' \in {Timer(j), Timer(j) + 1} ]_vars

\* C22 witness: J2's decision of tick 20 asked for a change and its setPhase
\* was rejected, in the tick in which J1's change was applied: J2's timer
\* stands at 20 with no change recorded, J1's was reset.
FailedDecisionKeepsStateWitness ==
    /\ simulation_error
    /\ sim.rejected = {"J2"}
    /\ obs["J2"].phase_change_needed
    /\ Timer("J2") = min_green_time
    /\ LastChange("J2") = 0
    /\ PhaseChanges("J2") = 0
    /\ Commands("J2") = 0
    /\ PhaseChanges("J1") = 1
    /\ Timer("J1") = 0

\* C25: two clocks agree.  With optimized_traffic_control called once per
\* step, step counting from 1, after every tick the phase timer of each
\* intersection equals the current step minus its last-change step; the
\* step difference of the coordination window is J1's timer.
TwoClocksAgree ==
    /\ \A j \in Intersections : Timer(j) = step - LastChange(j)
    /\ (tls_j2_id # "None" /\ step >= 1)
          => obs["J2"].steps_since_j1_change = Timer("J1")

\* C25 witness: both intersections have changed phase, at different steps,
\* J1 more than once, and J1's last change is 7 ticks old.
TwoClocksAgreeWitness ==
    /\ PhaseChanges("J1") >= 2
    /\ PhaseChanges("J2") >= 1
    /\ Timer("J1") = 7
    /\ LastChange("J1") = step - 7
    /\ LastChange("J2") # LastChange("J1")
    /\ obs["J2"].steps_since_j1_change = 7

\* C27: phases that are not green are a no-op for the decision.  In a tick
\* in which the simulator reports a phase other than 0 and 2 for an
\* intersection with a traffic light, no command is sent for it, its
\* last-change step and phase-change counter stay, its timer advances by
\* one, and the decision keeps the reported phase; when the intersection is
\* J1, J2's EW urgency of the tick is its unboosted score.
NonGreenPhaseNoOp ==
    [][ step' = step + 1 =>
          \A j \in Controlled :
              obs'[j].current_phase \notin GreenPhases =>
                  /\ Commands(j)' = Commands(j)
                  /\ LastChange(j)' = LastChange(j)
                  /\ PhaseChanges(j)' = PhaseChanges(j)
                  /\ Timer(j)' = Timer(j) + 1
                  /\ ~obs'[j].phase_change_needed
                  /\ obs'[j].target_phase = obs'[j].current_phase
                  /\ j = "J1" => obs'["J2"].ew_urgency = obs'["J2"].ew_score ]_vars

\* C27 witness: J1 reports the yellow phase 1 with its timer past
\* min_green_time and EW urgency above 1.5 times NS urgency (a green phase 2
\* would be left); nothing is commanded, and J2 has an EW score that stays
\* unboosted.
NonGreenPhaseNoOpWitness ==
    /\ tls_j2_id # "None"
    /\ obs["J1"].current_phase = 1
    /\ obs["J1"].timer >= min_green_time
    /\ Timer("J1") = obs["J1"].timer
    /\ obs["J1"].ew_urgency > Mul(obs["J1"].ns_urgency, 15, 10)
    /\ ~obs["J1"].phase_change_needed
    /\ Commands("J1") = 0
    /\ obs["J2"].ew_score > 0
    /\ obs["J2"].ew_urgency = obs["J2"].ew_score

\* The direction opposite to d.
Opposite(d) == IF d = "E" THEN "W" ELSE IF d = "W" THEN "E" ELSE IF d = "N" THEN "S" ELSE "N"

\* The number of ticks among the ticks from .. from + CameraPeriod - 1 of
\* j's remembered focus pairs in which d was the primary direction.
PrimaryTicks(j, d, from) ==
    Cardinality({i \in from .. from + CameraPeriod - 1 : obs[j].focus_seen[i][1] = d})

\* C28: the cameras stay in opposition.  After every tick the two camera
\* angles differ by 180 degrees modulo 360, the primary directions of J1
\* and J2 are opposite directions, and in any 36 consecutive ticks each
\* direction is the primary direction of each camera in 9 ticks.
CamerasOpposed ==
    /\ (controller.j2_camera_angle - controller.j1_camera_angle) % 360 = 180
    /\ step >= 1 =>
          /\ obs["J1"].angle = controller.j1_camera_angle
          /\ obs["J2"].angle = controller.j2_camera_angle
          /\ obs["J2"].primary = Opposite(obs["J1"].primary)
    /\ \A j \in Intersections :
          Len(obs[j].focus_seen) = CameraPeriod + 1 =>
              \A d \in Directions :
                  /\ PrimaryTicks(j, d, 1) * 4 = CameraPeriod
                  /\ PrimaryTicks(j, d, 2) * 4 = CameraPeriod

\* C28 witness: more than two rotations have passed; J1's camera has
\* wrapped and looks north at 90 degrees while J2's looks south at 270.
CamerasOpposedWitness ==
    /\ step > 2 * CameraPeriod
    /\ controller.j1_camera_angle = 90
    /\ controller.j2_camera_angle = 270
    /\ obs["J1"].primary = "N"
    /\ obs["J2"].primary = "S"
    /\ Len(obs["J1"].focus_seen) = CameraPeriod + 1
    /\ PrimaryTicks("J2", "S", 2) = 9

\* C30: uncontrolled secondary.  In a run that starts without a traffic
\* light at J2 no phase is read and no command is sent for J2, J2's
\* phase-change counter stays 0 and its timer is never reset, while
\* everything about J1 is as in the run with J2's traffic light and, the
\* detector readings of J2 being the same, J2's camera angle, focus and
\* history are as in that run.
UncontrolledSecondary ==
    (alt.enabled /\ alt.run.tls_j2_id = "None") =>
        /\ alt.run.obs["J2"].current_phase = -1
        /\ ~alt.run.obs["J2"].phase_change_needed
        /\ alt.run.sim.tls["J2"] = [phase |-> 0, elapsed |-> 0, commands |-> 0]
        /\ alt.run.metrics.intersection_stats["J2"].phase_changes = 0
        /\ alt.run.controller.j2_last_change = 0
        /\ alt.run.controller.j2_phase_timer = step
        /\ J1View(alt.run) = J1View(ThisRun)
        /\ alt.demand = demand =>
              /\ alt.run.controller.j2_camera_angle = controller.j2_camera_angle
              /\ alt.run.controller.traffic_history["J2"] = controller.traffic_history["J2"]
              /\ alt.run.obs["J2"].primary = obs["J2"].primary
              /\ alt.run.obs["J2"].secondary = obs["J2"].secondary
              /\ alt.run.obs["J2"].data = obs["J2"].data

\* C30 witness: the run without J2's traffic light has the detector
\* readings of the run with it; with the light J2 was commanded twice,
\* without it never, J1 changed phase in both, and J2's history is full.
UncontrolledSecondaryWitness ==
    /\ alt.enabled
    /\ alt.run.tls_j2_id = "None"
    /\ alt.demand = demand
    /\ Commands("J2") >= 2
    /\ PhaseChanges("J2") >= 2
    /\ alt.run.sim.tls["J2"].commands = 0
    /\ alt.run.metrics.intersection_stats["J1"].phase_changes >= 1
    /\ \E d \in Directions :
          Len(alt.run.controller.traffic_history["J2"][d]) = history_keep

-----------------------------------------------------------------------------
(* optimized_stable_controller.py: OptimizedTrafficController *)

\* Steps explored of a run of the stable controller.
StableHorizon == 100

\* camera_rotation_speed of the stable controller, degrees per step.
stable_camera_rotation_speed == 10

\* min_green_time of should_change_phase, steps.
stable_min_green_time == 30

\* What the urgency of an axis must exceed for a change (lines 182, 186).
stable_urgency_floor == 3

\* Fixed point of the logarithm and of the urgency factor: LogScale is 1.0.
LogScale == 100 * 100

\* math.log(p / q) for 0 < q <= p, in LogScale units: halvings (ln 2 is
\* 0.6931) down to
\* [1, 2), then 2 * atanh((m - 1) / (m + 1)) by its series up to y^7; the
\* result is within 0.001 of the logarithm.
RECURSIVE ln_scaled(_, _)
ln_scaled(p, q) ==
    IF p >= 2 * q
    THEN 6931 + ln_scaled(p, 2 * q)
    ELSE LET y  == ((p - q) * LogScale) \div (p + q)
             y2 == (y * y) \div LogScale
             y3 == (y * y2) \div LogScale
             y5 == (y3 * y2) \div LogScale
             y7 == (y5 * y2) \div LogScale
         IN  2 * (y + (y3 \div 3) + (y5 \div 5) + (y7 \div 7))

\* get_camera_focus_direction for a camera angle: the primary and secondary
\* direction and the quadrant label.  The first test, 315 <= angle < 45, is
\* a chained comparison: 315 <= angle and angle < 45.
get_camera_focus_direction(camera_angle) ==
    LET angle == camera_angle % 360
        focus == IF 315 <= angle /\ angle < 45
                 THEN <<"N", IF angle < 360 THEN "E" ELSE "W">>
                 ELSE IF 45 <= angle /\ angle < 135
                 THEN <<"E", IF angle < 90 THEN "S" ELSE "N">>
                 ELSE IF 135 <= angle /\ angle < 225
                 THEN <<"S", IF angle < 180 THEN "W" ELSE "E">>
                 ELSE <<"W", IF angle < 270 THEN "N" ELSE "S">>
        quadrant == <<"North", "East", "South", "West">>[(((angle + 45) \div 90) % 4) + 1]
    IN  [primary |-> focus[1], secondary |-> focus[2], quadrant |-> quadrant]

\* get_enhanced_traffic_density: the vehicles of each direction (a
\* direction whose detector reads raise counts none) weighted by the camera
\* focus, in tenths of a vehicle: 1.5 primary, 1.2 secondary, 1.0 else.
get_enhanced_traffic_density(ctrl, tl_id, raw) ==
    LET focus == get_camera_focus_direction(ctrl.camera_angles[tl_id])
        direction_vehicles(d) == IF raw[d].raises THEN 0 ELSE raw[d].total
        weight(d) == IF d = focus.primary THEN 15
                     ELSE IF d = focus.secondary THEN 12 ELSE 10
    IN  [densities |-> [d \in Directions |-> direction_vehicles(d) * weight(d)],
         focus |-> focus]

\* calculate_urgency_score of the stable controller: (urgency_ew,
\* urgency_ns) in units of 1 / (10 * LogScale).
stable_calculate_urgency_score(densities) ==
    LET ew_traffic == densities["E"] + densities["W"]
        ns_traffic == densities["N"] + densities["S"]
    IN  IF ew_traffic > 0 /\ ns_traffic > 0
        THEN LET hi == Max(ew_traffic, ns_traffic)
                 lo == IF ew_traffic < ns_traffic THEN ew_traffic ELSE ns_traffic
                 \* 1 + math.log(ratio + 1), ratio + 1 = (hi + lo) / lo
                 factor == LogScale + ln_scaled(hi + lo, lo)
             IN  [ew |-> ew_traffic * factor, ns |-> ns_traffic * factor]
        ELSE [ew |-> ew_traffic * 2 * LogScale, ns |-> ns_traffic * 2 * LogScale]

\* should_change_phase(tl_id, densities, current_step): (should_change,
\* new_phase).
should_change_phase(ctrl, simst, tl_id, densities, current_step) ==
    LET current_phase == getPhase(simst, tl_id)
        time_since_change == current_step - ctrl.last_phase_change[tl_id]
        urgency == stable_calculate_urgency_score(densities)
        floor == stable_urgency_floor * 10 * LogScale
    IN  IF time_since_change < stable_min_green_time
        THEN [change |-> FALSE, phase |-> current_phase]
        ELSE IF current_phase = 0
                /\ 10 * urgency.ns > 13 * urgency.ew /\ urgency.ns > floor
        THEN [change |-> TRUE, phase |-> 2]
        ELSE IF current_phase = 2
                /\ 10 * urgency.ew > 13 * urgency.ns /\ urgency.ew > floor
        THEN [change |-> TRUE, phase |-> 0]
        ELSE [change |-> FALSE, phase |-> current_phase]

\* update_camera_angles: every camera advances by the rotation speed,
\* modulo 360.
update_camera_angles(ctrl) ==
    [ctrl EXCEPT !.camera_angles =
        [tl_id \in Intersections |->
            (ctrl.camera_angles[tl_id] + stable_camera_rotation_speed) % 360]]

\* What the observer keeps of one intersection's part of a call of
\* control_traffic_lights.
NoStableObservation ==
    [angle |-> 0, primary |-> "W", secondary |-> "N", quadrant |-> "North",
     densities |-> [d \in Directions |-> 0],
     current_phase |-> -1, timer |-> 0, urgency_ew |-> 0, urgency_ns |-> 0,
     target_phase |-> -1, phase_change_needed |-> FALSE,
     green_run |-> 0, focus_seen |-> <<>>]

\* The body of the loop over self.traffic_lights (lines 206-223) for tl_id
\* on the state r = [controller, sim, obs].
control_one_light(r, tl_id, current_step, raw) ==
    Let(get_enhanced_traffic_density(r.controller, tl_id, raw[tl_id]), LAMBDA dens :
    Let(should_change_phase(r.controller, r.sim, tl_id, dens.densities, current_step),
        LAMBDA decision :
    Let(stable_calculate_urgency_score(dens.densities), LAMBDA urgency :
        [controller |->
            IF decision.change
            THEN [r.controller EXCEPT !.last_phase_change[tl_id] = current_step,
                                      !.phase_change_count[tl_id] = @ + 1]
            ELSE r.controller,
         sim |-> IF decision.change THEN setPhase(r.sim, tl_id, decision.phase)
                 ELSE r.sim,
         obs |-> [r.obs EXCEPT ![tl_id] =
                    [angle |-> r.controller.camera_angles[tl_id],
                     primary |-> dens.focus.primary,
                     secondary |-> dens.focus.secondary,
                     quadrant |-> dens.focus.quadrant,
                     densities |-> dens.densities,
                     current_phase |-> getPhase(r.sim, tl_id),
                     timer |-> current_step - r.controller.last_phase_change[tl_id],
                     urgency_ew |-> urgency.ew, urgency_ns |-> urgency.ns,
                     target_phase |-> decision.phase,
                     phase_change_needed |-> decision.change,
                     green_run |-> green_run_after(r.obs[tl_id], getPhase(r.sim, tl_id)),
                     focus_seen |-> focus_seen_after(r.obs[tl_id], dens.focus.primary,
                                                     dens.focus.secondary)]]]
    )))

\* control_traffic_lights(current_step): the cameras advance, then J1 and
\* J2 are handled in the order of self.traffic_lights.
control_traffic_lights(ctrl, simst, current_step, raw, prev) ==
    Let([controller |-> update_camera_angles(ctrl), sim |-> simst, obs |-> prev],
        LAMBDA r0 :
    Let(control_one_light(r0, "J1", current_step, raw), LAMBDA r1 :
        control_one_light(r1, "J2", current_step, raw)))

\* collect_metrics(current_step): one entry appended to self.metrics.
collect_metrics(met) == [met EXCEPT !.rows = @ + 1]

\* controller = OptimizedTrafficController() of the stable module.
InitStableController ==
    [camera_angles |-> [J1 |-> 0, J2 |-> 180],
     last_phase_change |-> [j \in Intersections |-> 0],
     phase_change_count |-> [j \in Intersections |-> 0]]

\* Runs of the stable controller under a constant demand, the simulator
\* answering every call.
InitStable ==
    /\ controller = InitStableController
    /\ metrics = [rows |-> 0]
    /\ \E prog \in SimPrograms : sim = InitSim(prog)
    /\ tls_j2_id = "1017322720"
    /\ step = 0
    /\ running = TRUE
    /\ \E b \in [Intersections -> Profiles] :
          demand = [base |-> b, surge |-> b, state |-> "pending", lasted |-> 0,
                    failed |-> NoneFailed]
    /\ obs = [j \in Intersections |-> NoStableObservation]
    /\ alt = NoAlt
    /\ simulation_error = FALSE

\* One iteration of "for step in range(duration_steps)" of run_simulation
\* (lines 313-320); the variable step counts the iterations made, so the
\* loop variable of this iteration is its value before the iteration.
StableTick ==
    /\ running
    /\ step < StableHorizon
    /\ step' = step + 1
    /\ \E r \in {control_traffic_lights(controller, simulationStep(sim, tls_j2_id),
                                        step, sensor_readings(demand), obs)} :
          /\ controller' = r.controller
          /\ sim' = r.sim
          /\ obs' = r.obs
    /\ metrics' = collect_metrics(metrics)
    /\ UNCHANGED <<tls_j2_id, running, demand, alt, simulation_error>>

StableFinish == Close(StableHorizon)

NextStable == StableTick \/ StableFinish

SpecStable == InitStable /\ [][NextStable]_vars

\* The direction a quadrant label names.
QuadrantDirection(quadrant) ==
    IF quadrant = "North" THEN "N" ELSE IF quadrant = "East" THEN "E"
    ELSE IF quadrant = "South" THEN "S" ELSE "W"

\* C23: max-green ceiling of the stable variant.  In a step in which an
\* intersection reports a green phase that the controller has not changed
\* for max_green_time steps a change is commanded, whatever the urgencies
\* are; an intersection therefore reports one green phase in no more
\* consecutive steps than the steps 0 .. max_green_time.
StableMaxGreenCeiling ==
    \A j \in Intersections :
        step >= 1 =>
            /\ obs[j].green_run <= max_green_time + 1
            /\ (obs[j].current_phase \in GreenPhases /\ obs[j].timer >= max_green_time)
                  => obs[j].phase_change_needed

\* C29: camera consistency of the stable variant.  The primary direction
\* of every step is the direction its quadrant label names, and within the
\* steps of a full rotation each direction is the primary direction of some
\* step.
StableCameraConsistent ==
    \A j \in Intersections :
        step >= 1 =>
            /\ obs[j].primary = QuadrantDirection(obs[j].quadrant)
            /\ Len(obs[j].focus_seen) = CameraPeriod + 1 =>
                  \A d \in Directions :
                      \E i \in 2 .. CameraPeriod + 1 : obs[j].focus_seen[i][1] = d

-----------------------------------------------------------------------------
(* baseline_traffic_controller.py: BaselineTrafficController *)

\* Steps explored of a run of the baseline controller.
BaselineHorizon == 200

\* Fixed times of J1, seconds (steps).
j1_green_ew_time == 45
j1_green_ns_time == 35
j1_yellow_time == 5
j1_red_time == 2

\* Steps between two rows of the baseline metrics.
baseline_metrics_every == 10

\* The cycle of J1.
j1_cycle_time ==
    j1_green_ew_time + j1_yellow_time + j1_green_ns_time + j1_yellow_time
        + j1_red_time * 2

\* Variant of fixed_target_phase: the all-red positions are given the green
\* phase that follows them.
fixed_target_phase_red_as_next(stp) ==
    LET cycle_position == stp % j1_cycle_time
    IN  IF cycle_position < j1_green_ew_time THEN 0
        ELSE IF cycle_position < j1_green_ew_time + j1_yellow_time THEN 1
        ELSE IF cycle_position < j1_green_ew_time + j1_yellow_time + j1_red_time THEN 2
        ELSE IF cycle_position < j1_green_ew_time + j1_yellow_time + j1_red_time
                                    + j1_green_ns_time THEN 2
        ELSE IF cycle_position < j1_green_ew_time + j1_yellow_time + j1_red_time
                                    + j1_green_ns_time + j1_yellow_time THEN 3
        ELSE 0

\* Lines 58-78 of basic_traffic_control: target_phase of step stp.
fixed_target_phase(stp) ==
    LET cycle_position == stp % j1_cycle_time
    IN  IF cycle_position < j1_green_ew_time THEN 0
        ELSE IF cycle_position < j1_green_ew_time + j1_yellow_time THEN 1
        ELSE IF cycle_position < j1_green_ew_time + j1_yellow_time + j1_red_time THEN 1
        ELSE IF cycle_position < j1_green_ew_time + j1_yellow_time + j1_red_time
                                    + j1_green_ns_time THEN 2
        ELSE IF cycle_position < j1_green_ew_time + j1_yellow_time + j1_red_time
                                    + j1_green_ns_time + j1_yellow_time THEN 3
        ELSE 3

\* What the observer keeps of a call of basic_traffic_control: the phase
\* read, the target, whether they differ, the number of consecutive steps
\* with this target, and the target and length of the run of steps before.
NoBaselineObservation ==
    [current_phase |-> -1, target_phase |-> -1, phase_change_needed |-> FALSE,
     target_run |-> 0, last_target |-> -1, last_run |-> 0]

baseline_observe(prev, current_phase, target_phase) ==
    [current_phase |-> current_phase, target_phase |-> target_phase,
     phase_change_needed |-> current_phase # target_phase,
     target_run  |-> IF prev.target_phase = target_phase THEN prev.target_run + 1 ELSE 1,
     last_target |-> IF prev.target_phase = target_phase THEN prev.last_target
                     ELSE prev.target_phase,
     last_run    |-> IF prev.target_phase = target_phase THEN prev.last_run
                     ELSE prev.target_run]

\* basic_traffic_control(step, tls_j1_id, metrics)
basic_traffic_control(ctrl, simst, stp, prev) ==
    Let(fixed_target_phase(stp), LAMBDA target_phase :
    Let(getPhase(simst, "J1"), LAMBDA current_phase :
        [controller |->
            [j1_phase_timer |-> ctrl.j1_phase_timer + 1,
             stats |-> [j1_phase_changes |->
                            IF current_phase # target_phase
                            THEN ctrl.stats.j1_phase_changes + 1
                            ELSE ctrl.stats.j1_phase_changes,
                        simulation_steps |-> stp]],
         sim |-> IF current_phase # target_phase
                 THEN setPhase(simst, "J1", target_phase) ELSE simst,
         obs |-> [prev EXCEPT !["J1"] =
                     baseline_observe(prev["J1"], current_phase, target_phase)]]))

\* calculate_basic_queue_length: the halting vehicles on the detectors the
\* method lists (J1: E, W, N, S; J2: E, W, N).
calculate_basic_queue_length(intersection, raw) ==
    raw[intersection]["E"].halting + raw[intersection]["W"].halting
        + raw[intersection]["N"].halting
        + (IF intersection = "J1" THEN raw[intersection]["S"].halting ELSE 0)

\* BaselineMetrics.collect_step_metrics: one row with the queues of the
\* step.
baseline_collect_step_metrics(met, raw) ==
    [rows |-> met.rows + 1,
     total_queue |-> calculate_basic_queue_length("J1", raw)
                        + calculate_basic_queue_length("J2", raw)]

\* controller = BaselineTrafficController()
InitBaselineController ==
    [j1_phase_timer |-> 0,
     stats |-> [j1_phase_changes |-> 0, simulation_steps |-> 0]]

\* Runs of the baseline controller: J1's light runs one of the programs,
\* J2's is switched off, the demand is constant.
InitBaseline ==
    /\ controller = InitBaselineController
    /\ metrics = [rows |-> 0, total_queue |-> 0]
    /\ \E prog \in SimPrograms : sim = InitSim(prog)
    /\ tls_j2_id = "None"
    /\ step = 0
    /\ running = TRUE
    /\ \E b \in [Intersections -> Profiles] :
          demand = [base |-> b, surge |-> b, state |-> "pending", lasted |-> 0,
                    failed |-> NoneFailed]
    /\ obs = [J1 |-> NoBaselineObservation]
    /\ alt = NoAlt
    /\ simulation_error = FALSE

\* One iteration of the while loop (lines 235-244).
BaselineTick ==
    /\ running
    /\ step < BaselineHorizon
    /\ step' = step + 1
    /\ \E r \in {basic_traffic_control(controller, simulationStep(sim, tls_j2_id),
                                       step + 1, obs)} :
          /\ controller' = r.controller
          /\ sim' = r.sim
          /\ obs' = r.obs
    /\ metrics' = IF (step + 1) % baseline_metrics_every = 0
                  THEN baseline_collect_step_metrics(metrics, sensor_readings(demand))
                  ELSE metrics
    /\ UNCHANGED <<tls_j2_id, running, demand, alt, simulation_error>>

BaselineFinish == Close(BaselineHorizon)

NextBaseline == BaselineTick \/ BaselineFinish

SpecBaseline == InitBaseline /\ [][NextBaseline]_vars

\* The fixed-time plan of C24: the targets in their order with the number
\* of consecutive cycle positions of each.
FixedPlan == <<[phase |-> 0, len |-> 45], [phase |-> 1, len |-> 7],
               [phase |-> 2, len |-> 35], [phase |-> 3, len |-> 7]>>

\* The first cycle position of entry i of the plan.
RECURSIVE PlanStart(_)
PlanStart(i) == IF i = 1 THEN 0 ELSE PlanStart(i - 1) + FixedPlan[i - 1].len

\* The target the plan gives to cycle position p.
PlanTarget(p) ==
    FixedPlan[CHOOSE i \in 1 .. Len(FixedPlan) :
                 PlanStart(i) <= p /\ p < PlanStart(i) + FixedPlan[i].len].phase

\* C24: baseline fixed-time cycle.  In every step the target phase of J1 is
\* the one the fixed plan gives to step mod cycle length, whatever the
\* detectors report; the targets follow each other in the order 0, 1, 2, 3;
\* a run of target 0 that began at a cycle start lasts 45 steps and a run of
\* target 2 lasts 35 steps; and setPhase is called and the phase-change
\* counter incremented exactly in the steps in which the phase read differs
\* from the target.
BaselineFixedCycle ==
    [][ step' = step + 1 =>
          LET o == obs'["J1"]
              commanded == sim'.tls["J1"].commands # sim.tls["J1"].commands
              counted == controller'.stats.j1_phase_changes
                            # controller.stats.j1_phase_changes
          IN  /\ o.target_phase = PlanTarget(step' % j1_cycle_time)
              /\ (step >= 1 /\ o.target_phase # obs["J1"].target_phase)
                    => /\ o.target_phase = (obs["J1"].target_phase + 1) % 4
                       /\ (o.last_target = 0 /\ step' > j1_cycle_time) => o.last_run = 45
                       /\ o.last_target = 2 => o.last_run = 35
              /\ commanded <=> o.current_phase # o.target_phase
              /\ counted <=> o.current_phase # o.target_phase
              /\ commanded => /\ sim'.tls["J1"].commands = sim.tls["J1"].commands + 1
                              /\ getPhase(sim', "J1") = o.target_phase ]_vars

\* C24 witness: in the second cycle the target has just moved from 0 to 1
\* after 45 steps of target 0, the light still showed 0 and was commanded,
\* and there are detectors that report vehicles.
BaselineFixedCycleWitness ==
    /\ step = j1_cycle_time + j1_green_ew_time
    /\ obs["J1"].target_phase = 1
    /\ obs["J1"].last_target = 0
    /\ obs["J1"].last_run = 45
    /\ obs["J1"].current_phase = 0
    /\ obs["J1"].phase_change_needed
    /\ controller.stats.j1_phase_changes = sim.tls["J1"].commands
    /\ controller.stats.j1_phase_changes >= 5
    /\ metrics.total_queue > 0

=============================================================================
